---- MODULE Spec2Model ----
(***************************************************************************)
(* tri_ton: the tri! macro family of src/src/triage.rs.                    *)
(*                                                                         *)
(* A construct `chk => TERM <op> trailing` enters the Field Normalizer     *)
(* (__format_caption / __format_variant, one macro recursion per field),   *)
(* is handed to the Operator Expander (__expand_caption, __expand_variant, *)
(* __expand_path, __expand_rule: the first rule that matches wins, no rule *)
(* means no expansion), and the emitted fragment is then run by the host:  *)
(* the run-time steps below are the statements of the emitted templates.   *)
(*                                                                         *)
(* The initial states are the constructs as written: the tokens after the  *)
(* check expression (a path or none, the delimiter that follows, a field   *)
(* list or pattern list) and the trailing clause. `tri` classifies them;   *)
(* the format macros are `#[macro_export]`ed themselves and can be given   *)
(* a field list directly.                                                  *)
(***************************************************************************)
EXTENDS Naturals, Sequences, FiniteSets

\* ---------------------------------------------------------------- bounds
MaxFields == 2
MaxRules == 2
MaxOtw == 2
MaxVal == 1
MaxIter == 3
MaxSegs == 2

Vals == 0..MaxVal

\* ------------------------------------------------------------- constructs
Shapes == {"Path", "Variant", "Caption", "Rule"}

\* The five operator tokens of the trailing clause.
OpTokens == {"->", "<>", "#>", "%>", ">>"}

\* What the trailing tokens `$($tal:tt)+` may begin with: one of the five
\* operators or some other token, which no rule of the expand macros lists.
OtherToken == "??"

TailTokens == OpTokens \cup {OtherToken}

\* What follows the path (or stands alone): `[...]`, `(...)` or nothing.
Delims == {"[", "(", "none"}

\* The field forms the Normalizer tells apart, in rule order.
Caps == <<"refmut", "ref", "mut", "ident", "pat">>

CapSet == {Caps[i] : i \in 1..Len(Caps)}

\* One field of a Variant/Caption list: its capture form, whether it carries
\* a guard (`@ pat`) and whether it carries an initializer (`= expr`).
\* A raw pattern carries neither.
FieldKinds ==
    [cap : CapSet \ {"pat"}, grd : BOOLEAN, ini : BOOLEAN]
        \cup {[cap |-> "pat", grd |-> FALSE, ini |-> FALSE]}

WithId(ks) == [i \in 1..Len(ks) |-> [id |-> i, cap |-> ks[i].cap,
                                     grd |-> ks[i].grd, ini |-> ks[i].ini]]

FieldLists ==
    UNION {{WithId(ks) : ks \in [1..n -> FieldKinds]} : n \in 1..MaxFields}

\* The trailing clause: the operator token, whether the tokens after `#>`
\* begin with `break`, the number of comma-separated expressions and
\* whether the (single) expression has unit type.
Tails ==
    {t \in [op : TailTokens, brk : BOOLEAN, n : 1..MaxOtw, unit : BOOLEAN] :
        /\ (t.brk => t.op = "#>")
        /\ (t.n > 1 => t.op = "<>" /\ ~t.unit)
        /\ (t.op = "#>" => ~t.unit)}

\* --------------------------------------------------------------- classifier
\* The arm of `tri` a construct is matched by. The arms are tried in source
\* order and the first match wins; `segs` is the number of `::`-separated
\* segments of the path (0: no path), `dl` the delimiter, `fs` the fields.
\*  - Caption, Variant: `path [$($uci:tt)+ $(,)?]`, `path ($($uci:tt)+ $(,)?)`.
\*    An empty list fails the arm. At a top-level comma both the `tt`
\*    repetition and the literal `,` can go on: the macro parser stops with
\*    a local ambiguity error and tries no further arm.
\*  - Path: `path $($tal:tt)+`. At a `::` both the path separator and the
\*    `tt` repetition can go on: the same error for a longer path.
\*  - Rule: `[$($rle:pat),*]`, with no path before it.
TriArm(segs, dl, fs) ==
    CASE segs > 0 /\ dl = "[" /\ fs # <<>> ->
            IF Len(fs) > 1 THEN "ambiguous" ELSE "Caption"
      [] segs > 0 /\ dl = "(" /\ fs # <<>> ->
            IF Len(fs) > 1 THEN "ambiguous" ELSE "Variant"
      [] segs > 1 -> "ambiguous"
      [] segs = 1 -> "Path"
      [] segs = 0 /\ dl = "[" -> "Rule"
      [] OTHER -> "none"

\* The trailing tokens the Path arm hands to __expand_path: everything after
\* the path, an empty `[]` or `()` included.
PathTail(dl, tl) == IF dl = "none" THEN tl ELSE [tl EXCEPT !.op = dl]

\* --------------------------------------------------------------- normalizer
\* A binding descriptor: the four comma-separated slots
\* `$rfi, $mti, $var $(@ $grd)? $(= $ini)?, $alt`.
Descriptor(rfi, mti, var, grd, ini, alt) ==
    [rfi |-> rfi, mti |-> mti, var |-> var, grd |-> grd, ini |-> ini, alt |-> alt]

\* An output name: `$($bmo)* # $cln $(= $ani)?`.
OutName(bmo, cln, ani) == [bmo |-> bmo, cln |-> cln, ani |-> ani]

\* The descriptor each rule appends (identical in both format macros).
DescOf(f) ==
    CASE f.cap = "refmut" -> Descriptor(TRUE, TRUE, f.id, f.grd, f.ini, FALSE)
      [] f.cap = "ref"    -> Descriptor(TRUE, FALSE, f.id, f.grd, f.ini, FALSE)
      [] f.cap = "mut"    -> Descriptor(FALSE, FALSE, f.id, f.grd, f.ini, FALSE)
      [] f.cap = "ident"  -> Descriptor(FALSE, FALSE, f.id, f.grd, f.ini, FALSE)
      [] f.cap = "pat"    -> Descriptor(FALSE, FALSE, 0, FALSE, FALSE, TRUE)

\* The binding modifiers each rule writes in front of `#`.
BmoOf(cap) ==
    CASE cap = "refmut" -> <<"ref", "mut">>
      [] cap = "ref"    -> <<"ref">>
      [] cap = "mut"    -> <<"mut">>
      [] OTHER          -> <<>>

\* The name list after one rule of __format_caption: a named field appends
\* `bmo # a $(= c)?`, a raw pattern re-emits the list unchanged.
CaptionNamesPlaceholder(nms, f) ==
    IF f.cap = "pat" THEN Append(nms, OutName(<<>>, f.id, FALSE))
    ELSE Append(nms, OutName(BmoOf(f.cap), f.id, f.ini))

CaptionNames(nms, f) ==
    IF f.cap = "pat" THEN nms
    ELSE Append(nms, OutName(BmoOf(f.cap), f.id, f.ini))

\* The name list after one rule of __format_variant: as above, but the
\* initializer is never written after the name.
VariantNames(nms, f) ==
    IF f.cap = "pat" THEN nms
    ELSE Append(nms, OutName(BmoOf(f.cap), f.id, FALSE))

\* ----------------------------------------------------------------- expander
\* An emitted fragment: the template (the rule that matched), the shape,
\* the descriptors and names it was instantiated with, the number of Rule
\* patterns and the trailing clause.
Fragment(tpl, shape, pats, names, nrle, tail) ==
    [tpl |-> tpl, shape |-> shape, pats |-> pats, names |-> names,
     nrle |-> nrle, tail |-> tail]

\* No rule matched: the macro invocation is an error and nothing is emitted.
Reject(shape, tail) == Fragment("none", shape, <<>>, <<>>, 0, tail)

Range(s) == {s[i] : i \in 1..Len(s)}

\* `$($var:ident $(@ $grd:pat)? = $ini:expr)?`: every named slot carries `=`.
AllIni(dsc) == \A d \in Range(dsc) : d.var # 0 => d.ini

\* `$($var:ident $(@ $grd:pat)?)?`: no named slot carries `=`.
NoIni(dsc) == \A d \in Range(dsc) : ~d.ini

\* `# $cln:ident = $ani:expr` for every name / `# $cln:ident` for every name.
AllAni(nms) == \A m \in Range(nms) : m.ani

NoAni(nms) == \A m \in Range(nms) : ~m.ani

\* The rules every expand macro lists after Tri-While, in source order:
\* Fail, Fall, Return (Break), Return, Until. `multi` tells whether the
\* Fall rule takes a comma-separated list of fallback expressions.
OperatorRule(tail, multi) ==
    CASE tail.op = "->" /\ tail.n = 1               -> "Fail"
      [] tail.op = "<>" /\ (multi \/ tail.n = 1)    -> "Fall"
      [] tail.op = "#>" /\ tail.brk                 -> "Break"
      [] tail.op = "#>" /\ ~tail.brk /\ tail.n = 1  -> "Return"
      [] tail.op = "%>" /\ tail.n = 1               -> "Until"
      [] OTHER                                      -> "none"

ExpandCaption(dsc, nms, tail) ==
    IF tail.op = ">>" /\ tail.n = 1 /\ AllIni(dsc) /\ AllAni(nms)
    THEN Fragment("While", "Caption", dsc, nms, 0, tail)
    ELSE IF NoIni(dsc) /\ NoAni(nms) /\ OperatorRule(tail, TRUE) # "none"
    THEN Fragment(OperatorRule(tail, TRUE), "Caption", dsc, nms, 0, tail)
    ELSE Reject("Caption", tail)

ExpandVariantArityChecked(dsc, nms, tail) ==
    IF tail.op = ">>" /\ tail.n = 1 /\ AllIni(dsc) /\ AllAni(nms)
    THEN Fragment("While", "Variant", dsc, nms, 0, tail)
    ELSE IF /\ NoIni(dsc) /\ NoAni(nms) /\ OperatorRule(tail, TRUE) # "none"
            /\ (tail.op = "<>" => tail.n = Len(nms))
    THEN Fragment(OperatorRule(tail, TRUE), "Variant", dsc, nms, 0, tail)
    ELSE Reject("Variant", tail)

ExpandVariant(dsc, nms, tail) ==
    IF tail.op = ">>" /\ tail.n = 1 /\ AllIni(dsc) /\ AllAni(nms)
    THEN Fragment("While", "Variant", dsc, nms, 0, tail)
    ELSE IF NoIni(dsc) /\ NoAni(nms) /\ OperatorRule(tail, TRUE) # "none"
    THEN Fragment(OperatorRule(tail, TRUE), "Variant", dsc, nms, 0, tail)
    ELSE Reject("Variant", tail)

ExpandPath(tail) ==
    IF tail.op = ">>" /\ tail.n = 1
    THEN Fragment("While", "Path", <<>>, <<>>, 0, tail)
    ELSE IF OperatorRule(tail, FALSE) # "none"
    THEN Fragment(OperatorRule(tail, FALSE), "Path", <<>>, <<>>, 0, tail)
    ELSE Reject("Path", tail)

\* Every rule of __expand_rule asks for `[$($rle:pat),+]`.
ExpandRule(nrle, tail) ==
    IF nrle = 0 THEN Reject("Rule", tail)
    ELSE IF tail.op = ">>" /\ tail.n = 1
    THEN Fragment("While", "Rule", <<>>, <<>>, nrle, tail)
    ELSE IF OperatorRule(tail, FALSE) # "none"
    THEN Fragment(OperatorRule(tail, FALSE), "Rule", <<>>, <<>>, nrle, tail)
    ELSE Reject("Rule", tail)

\* The type of the fallback tuple `($($otw),+)`, as a tuple length: one
\* unit expression is `()`, one other expression is a single value.
FallArity(tail) == IF tail.n = 1 /\ tail.unit THEN 0 ELSE tail.n

\* Whether the host parses and type-checks the emitted fragment.
\*  - Caption While/Fall write `let $($($bmo)* $cln),* = ...` with no
\*    parentheses: a `let` needs exactly one name there.
\*  - both arms of a Fall `if let`/`match` have one type.
\*  - Rule Until writes `if let $($rle),+ = ...` and ends the loop body
\*    with `else { $otw }`.
\*  - a Caption While name declared `ref` borrows the monitor, which does
\*    not outlive the block the loop breaks out of.
HostAccepts(fr) ==
    CASE fr.tpl = "none" -> FALSE
      [] fr.shape = "Caption" /\ fr.tpl = "While" ->
            Len(fr.names) = 1 /\ \A m \in Range(fr.names) : "ref" \notin Range(m.bmo)
      [] fr.shape = "Caption" /\ fr.tpl = "Fall"  ->
            Len(fr.names) = 1 /\ FallArity(fr.tail) = 1
      [] fr.shape = "Variant" /\ fr.tpl = "Fall"  ->
            FallArity(fr.tail) = Len(fr.names)
      [] fr.shape = "Rule" /\ fr.tpl = "Fall"     -> fr.tail.unit
      [] fr.shape = "Rule" /\ fr.tpl = "Until"    -> fr.nrle = 1 /\ fr.tail.unit
      [] OTHER -> TRUE

\* The qualifiers a descriptor writes before its name inside the
\* destructuring pattern: `$($rfi)? $($mti)? $var`.
DescQualifiers(d) ==
    (IF d.rfi THEN <<"ref">> ELSE <<>>) \o (IF d.mti THEN <<"mut">> ELSE <<>>)

\* The qualifiers of the `let` that introduces the i-th name of a Caption
\* fragment into the enclosing scope.
\*  - Fail, Return, Return (Break): `let $xpv(...) = $chk else {...};`, the
\*    name is bound by the destructuring pattern itself, from its descriptor.
\*  - Fall, Until, While: `let $($($bmo)* $cln),* = ...;`, the name is bound
\*    again outside the destructuring, from the name list.
ScopeQualifiers(fr, i) ==
    IF fr.tpl \in {"Fail", "Return", "Break"}
    THEN DescQualifiers(CHOOSE d \in Range(fr.pats) : d.var = fr.names[i].cln)
    ELSE fr.names[i].bmo

\* ------------------------------------------------------------------ run time
\* One evaluation of the check expression, as the destructuring sees it:
\* whether the value has the shape, whether the field guards and raw
\* patterns accept it, and the field values a match binds, in name order.
Outcome(shapeOk, grdOk, vals) == [shapeOk |-> shapeOk, grdOk |-> grdOk, vals |-> vals]

NoOutcome == Outcome(FALSE, FALSE, <<>>)

Zeros(n) == [i \in 1..n |-> 0]

HasGuard(fr) == \E d \in Range(fr.pats) : d.grd \/ d.alt

Outcomes(fr) ==
    {Outcome(FALSE, TRUE, Zeros(Len(fr.names)))}
        \cup (IF HasGuard(fr) THEN {Outcome(TRUE, FALSE, Zeros(Len(fr.names)))} ELSE {})
        \cup {Outcome(TRUE, TRUE, v) : v \in [1..Len(fr.names) -> Vals]}

MatchesShapeOnly(o) == o.shapeOk

\* `let $xpv($var $(@ $grd)? ...) = $chk` / `if let ...`: the pattern
\* matches when the constructor and every guard and raw pattern match.
Matches(o) == o.shapeOk /\ o.grdOk

\* `($($cln),*)` after a match: the bound values in name order.
BindingTuple(fr, o) == o.vals

\* The value of the else branch of a Fall: `{ $otw; }` for Path, `{ $otw }`
\* for Rule, `($($otw),+)` for Variant and Caption. A fallback expression
\* that is not `()` has the value 0.
FallbackTuple(tail) == Zeros(FallArity(tail))

FallResultUnit(fr) == <<>>

FallResult(fr) ==
    IF fr.shape = "Path" THEN <<>> ELSE FallbackTuple(fr.tail)

\* What the loop-local names may hold after `$inc`: the trailing expression
\* can assign to a name declared `mut` and to no other.
TrailingWrites(fr, l) ==
    {t \in [1..Len(fr.names) -> Vals] :
        \A i \in 1..Len(fr.names) : fr.names[i].bmo # <<"mut">> => t[i] = l[i]}

\* How the enclosing routine is left: not at all, by `return` (of the
\* trailing expression, wrapped in Err or not) or by `break`.
Exit(kind, wrap) == [kind |-> kind, wrap |-> wrap]

NoExit == Exit("none", "none")

\* Where the emitted fragment starts: Variant/Caption While seed the
\* monitor first, the other While templates open the loop with `$inc`,
\* every other template opens with the destructuring of `$chk`.
EntryPointTrailFirst(fr) ==
    IF fr.tpl = "While" /\ fr.shape \in {"Variant", "Caption"} THEN "seed"
    ELSE IF fr.tpl = "While" THEN "body"
    ELSE IF fr.tpl = "Until" THEN "trail"
    ELSE "attempt"

EntryPointWhileDo(fr) ==
    IF fr.tpl = "While" /\ fr.shape \in {"Variant", "Caption"} THEN "seed"
    ELSE "attempt"

EntryPoint(fr) ==
    IF fr.tpl = "While" /\ fr.shape \in {"Variant", "Caption"} THEN "seed"
    ELSE IF fr.tpl = "While" THEN "body"
    ELSE "attempt"

FailureExitWrapped(tpl) ==
    CASE tpl = "Fail"   -> Exit("return", "Err")
      [] tpl = "Return" -> Exit("return", "Err")
      [] tpl = "Break"  -> Exit("break", "none")

\* The else branch of the single-shot templates other than Fall.
FailureExit(tpl) ==
    CASE tpl = "Fail"   -> Exit("return", "Err")
      [] tpl = "Return" -> Exit("return", "none")
      [] tpl = "Break"  -> Exit("break", "none")

WhileBreakValueMonitor(fr, mon, l) == IF fr.shape = "Caption" THEN mon ELSE <<>>

\* What a While loop yields when the attempt fails: `break ($($cln),*)`
\* in the Caption template, where the names are the ones declared by
\* `let ... = monitor` at the top of the iteration; a bare `break` elsewhere.
WhileBreakValue(fr, mon, l) == IF fr.shape = "Caption" THEN l ELSE <<>>

\* The evaluations, in the order the host performs them.
Ev(e, i) == [e |-> e, i |-> i]

Count(lg, es) == Cardinality({i \in 1..Len(lg) : lg[i].e \in es})

\* The evaluations of the current execution of the fragment: what follows
\* the last "run" mark.
Marks(lg) == {i \in 1..Len(lg) : lg[i].e = "run"}

LastMark(lg) == IF Marks(lg) = {} THEN 0
                ELSE CHOOSE i \in Marks(lg) : \A j \in Marks(lg) : j <= i

ThisRun(lg) == SubSeq(lg, LastMark(lg) + 1, Len(lg))

EvalCheckTwice(lg, o) ==
    Append(Append(lg, Ev(IF Matches(o) THEN "chk+" ELSE "chk-", 0)),
           Ev(IF Matches(o) THEN "chk+" ELSE "chk-", 0))

\* The one `$chk` of the destructuring statement.
EvalCheck(lg, o) == Append(lg, Ev(IF Matches(o) THEN "chk+" ELSE "chk-", 0))

\* `$otw;` / `$inc;` of the loop templates.
EvalTrailing(lg) == Append(lg, Ev("trl", 0))

\* The fallback expressions of a Fall, left to right.
EvalFallback(lg, tl) == lg \o [i \in 1..tl.n |-> Ev("fbk", i)]

EvalInitsPerName(lg, names) ==
    lg \o [i \in 1..Len(names) |-> Ev("ini", names[i].cln)]
       \o [i \in 1..Len(names) |-> Ev("ini", names[i].cln)]

\* `($($ani),*)`: the initializers, in name order.
EvalInits(lg, names) == lg \o [i \in 1..Len(names) |-> Ev("ini", names[i].cln)]

VARIABLES tag, delim, via, shape, fields, nrle, tail, pc, uci, dsc, nms, frag,
          monitor, loc, result, exit, log,
          lastOut, dirty, run

surface == <<tag, delim, fields, nrle>>
construct == <<surface, via, shape, tail>>
normal == <<uci, dsc, nms>>
runtime == <<monitor, loc, result, exit, log, lastOut, dirty, run>>
vars == <<construct, pc, normal, frag, runtime>>

\* The number of path segments matters to the Path arm alone: lists of
\* several fields are written after a one-segment path.
Init ==
    /\ tag \in 0..MaxSegs
    /\ delim \in Delims
    /\ fields \in (IF tag > 0 /\ delim # "none" THEN FieldLists \cup {<<>>} ELSE {<<>>})
    /\ (tag > 1 => Len(fields) <= 1)
    /\ nrle \in (IF tag = 0 /\ delim = "[" THEN 0..MaxRules ELSE {0})
    /\ tail \in Tails
    /\ via = "none"
    /\ shape = "none"
    /\ pc = "classify"
    /\ uci = fields
    /\ dsc = <<>>
    /\ nms = <<>>
    /\ frag = Reject(shape, tail)
    /\ monitor = <<>>
    /\ loc = <<>>
    /\ result = <<>>
    /\ exit = NoExit
    /\ log = <<>>
    /\ lastOut = NoOutcome
    /\ dirty = TRUE
    /\ run = 1

\* ---- Term Classifier ---------------------------------------------------
\* `tri!(chk => ...)`: the arm that matches forwards the construct to the
\* Normalizer (Caption, Variant) or to the Expander (Path, Rule).
Tri ==
    /\ pc = "classify"
    /\ via' = "tri"
    /\ LET arm == TriArm(tag, delim, fields) IN
        /\ shape' = (IF arm \in Shapes THEN arm ELSE "none")
        /\ tail' = (IF arm = "Path" THEN PathTail(delim, tail) ELSE tail)
        /\ pc' = (CASE arm \in {"Caption", "Variant"} -> "format"
                   [] arm \in {"Path", "Rule"}       -> "expand"
                   [] OTHER                          -> "rejected")
    /\ UNCHANGED <<surface, normal, frag, runtime>>

\* `__format_caption!(chk => path [fields] [] [] ...)` and
\* `__format_variant!` written out by hand, as `tri` would forward them.
Direct ==
    /\ pc = "classify"
    /\ tag > 0
    /\ delim # "none"
    /\ fields # <<>>
    /\ via' = "direct"
    /\ shape' = (IF delim = "[" THEN "Caption" ELSE "Variant")
    /\ pc' = "format"
    /\ UNCHANGED <<surface, tail, normal, frag, runtime>>

\* ---- Field Normalizer: one macro recursion per field ------------------
FormatFieldAbsorbing(cap) ==
    /\ pc = "format"
    /\ uci # <<>>
    /\ Head(uci).cap = cap
    /\ uci' = (IF cap = "pat" THEN <<>> ELSE Tail(uci))
    /\ dsc' = Append(dsc, DescOf(Head(uci)))
    /\ nms' = (IF shape = "Caption" THEN CaptionNames(nms, Head(uci))
                                   ELSE VariantNames(nms, Head(uci)))
    /\ UNCHANGED <<construct, pc, frag, runtime>>

\* Each rule takes the first field off the list (`$(, $($uci:tt)+)?` is what
\* is left, the `$pat` rule included), appends its descriptor and, for a
\* named field, its output name, and recurses.
FormatField(cap) ==
    /\ pc = "format"
    /\ uci # <<>>
    /\ Head(uci).cap = cap
    /\ uci' = Tail(uci)
    /\ dsc' = Append(dsc, DescOf(Head(uci)))
    /\ nms' = (IF shape = "Caption" THEN CaptionNames(nms, Head(uci))
                                   ELSE VariantNames(nms, Head(uci)))
    /\ UNCHANGED <<construct, pc, frag, runtime>>

FormatRefMut == FormatField("refmut")

FormatRef == FormatField("ref")

FormatMut == FormatField("mut")

FormatIdent == FormatField("ident")

FormatPat == FormatField("pat")

\* The Output rule: the field list is exhausted, hand over to the Expander.
FormatOutput ==
    /\ pc = "format"
    /\ uci = <<>>
    /\ pc' = "expand"
    /\ UNCHANGED <<construct, normal, frag, runtime>>

\* ---- Operator Expander -------------------------------------------------
Emit(fr) ==
    /\ frag' = fr
    /\ pc' = (IF fr.tpl = "none" THEN "rejected"
              ELSE IF ~HostAccepts(fr) THEN "hosterr"
              ELSE EntryPoint(fr))
    /\ UNCHANGED <<construct, normal, runtime>>

Expand ==
    /\ pc = "expand"
    /\ Emit(CASE shape = "Caption" -> ExpandCaption(dsc, nms, tail)
              [] shape = "Variant" -> ExpandVariant(dsc, nms, tail)
              [] shape = "Path"    -> ExpandPath(tail)
              [] shape = "Rule"    -> ExpandRule(nrle, tail))

\* ---- the emitted fragment at run time -----------------------------------
\* The check expression is a function of the host state, which only the
\* trailing and fallback expressions and the loop's own rebinding change.
Pure(o) == dirty \/ o = lastOut

Checked(o) ==
    /\ Pure(o)
    /\ log' = EvalCheck(log, o)
    /\ lastOut' = o
    /\ dirty' = FALSE

\* Fail, Fall, Return and Return (Break): one destructuring of `$chk`.
AttemptOnce ==
    /\ pc = "attempt"
    /\ frag.tpl \in {"Fail", "Fall", "Break", "Return"}
    /\ \E o \in Outcomes(frag) :
        /\ Checked(o)
        /\ IF Matches(o)
           THEN /\ result' = BindingTuple(frag, o)
                /\ pc' = "done"
                /\ exit' = exit
           ELSE IF frag.tpl = "Fall"
           THEN /\ pc' = "fallback"
                /\ UNCHANGED <<result, exit>>
           ELSE /\ pc' = "exited"
                /\ exit' = FailureExit(frag.tpl)
                /\ UNCHANGED result
    /\ UNCHANGED <<construct, normal, frag, monitor, loc, run>>

\* The else branch of Fall.
Fallback ==
    /\ pc = "fallback"
    /\ log' = EvalFallback(log, frag.tail)
    /\ result' = FallResult(frag)
    /\ dirty' = TRUE
    /\ pc' = "done"
    /\ UNCHANGED <<construct, normal, frag, monitor, loc, exit, lastOut, run>>

\* Until: `loop { if let ... = $chk { break (...) } else { $otw; } }`.
AttemptUntil ==
    /\ pc = "attempt"
    /\ frag.tpl = "Until"
    /\ \E o \in Outcomes(frag) :
        /\ Checked(o)
        /\ IF Matches(o)
           THEN /\ result' = BindingTuple(frag, o)
                /\ pc' = "done"
           ELSE /\ pc' = "trail"
                /\ UNCHANGED result
    /\ UNCHANGED <<construct, normal, frag, monitor, loc, exit, run>>

TrailUntil ==
    /\ pc = "trail"
    /\ Count(ThisRun(log), {"trl"}) < MaxIter
    /\ log' = EvalTrailing(log)
    /\ dirty' = TRUE
    /\ pc' = "attempt"
    /\ UNCHANGED <<construct, normal, frag, monitor, loc, result, exit, lastOut, run>>

\* While: `let mut monitor = ($($ani),*);`
SeedWhile ==
    /\ pc = "seed"
    /\ \E iv \in [1..Len(frag.names) -> Vals] : monitor' = iv
    /\ log' = EvalInits(log, frag.names)
    /\ pc' = "body"
    /\ UNCHANGED <<construct, normal, frag, loc, result, exit, lastOut, dirty, run>>

\* While: `let names = monitor; $inc;`
BodyWhile ==
    /\ pc = "body"
    /\ Count(ThisRun(log), {"trl"}) < MaxIter
    /\ \E l \in TrailingWrites(frag, monitor) : loc' = l
    /\ log' = EvalTrailing(log)
    /\ dirty' = TRUE
    /\ pc' = "attempt"
    /\ UNCHANGED <<construct, normal, frag, monitor, result, exit, lastOut, run>>

\* While: `let $xpv(...) = $chk else { break ... }; monitor = ($($cln),*);`
AttemptWhile ==
    /\ pc = "attempt"
    /\ frag.tpl = "While"
    /\ \E o \in Outcomes(frag) :
        /\ Checked(o)
        /\ IF Matches(o)
           THEN /\ monitor' = BindingTuple(frag, o)
                /\ pc' = "body"
                /\ UNCHANGED result
           ELSE /\ result' = WhileBreakValue(frag, monitor, loc)
                /\ pc' = "done"
                /\ UNCHANGED monitor
    /\ UNCHANGED <<construct, normal, frag, loc, exit, run>>

\* The same loop construct written a second time right after the first
\* (tests.rs: tri_until, tri_while).
Rerun ==
    /\ pc = "done"
    /\ frag.tpl \in {"Until", "While"}
    /\ run = 1
    /\ run' = 2
    /\ log' = Append(log, Ev("run", run'))
    /\ pc' = EntryPoint(frag)
    /\ UNCHANGED <<construct, normal, frag, monitor, loc, result, exit, lastOut, dirty>>

Next ==
    \/ Tri
    \/ Direct
    \/ FormatRefMut
    \/ FormatRef
    \/ FormatMut
    \/ FormatIdent
    \/ FormatPat
    \/ FormatOutput
    \/ Expand
    \/ AttemptOnce
    \/ Fallback
    \/ AttemptUntil
    \/ TrailUntil
    \/ SeedWhile
    \/ BodyWhile
    \/ AttemptWhile
    \/ Rerun

Spec == Init /\ [][Next]_vars

TypeOK ==
    /\ pc \in {"classify", "format", "expand", "rejected", "hosterr", "seed", "body",
               "attempt", "trail", "fallback", "done", "exited"}
    /\ run \in 1..2
    /\ Len(log) <= 2 * (2 * MaxIter + MaxFields + 1) + 1

\* ------------------------------------------------------------------ claims
Running == pc \in {"seed", "body", "attempt", "trail", "fallback", "done", "exited"}

Checks == {"chk+", "chk-"}

Cur == ThisRun(log)

\* C1: in an Until loop every evaluation of the trailing expression comes
\* immediately after a failed attempt and every failed attempt is followed
\* by one; the first successful attempt ends the loop, so k failures give
\* exactly k trailing evaluations; an Until run again right after it
\* stopped succeeds at once and evaluates no trailing expression.
C1_UntilTrailingPerFailure ==
    (Running /\ frag.tpl = "Until") =>
        /\ \A i \in 1..Len(Cur) :
            /\ Cur[i].e = "trl" => i > 1 /\ Cur[i - 1].e = "chk-"
            /\ Cur[i].e = "chk-" =>
                IF i < Len(Cur) THEN Cur[i + 1].e = "trl" ELSE pc = "trail"
            /\ Cur[i].e = "chk+" => i = Len(Cur) /\ pc = "done"
        /\ pc = "done" =>
            /\ Cur # <<>> /\ Cur[Len(Cur)].e = "chk+"
            /\ Count(Cur, {"trl"}) = Count(Cur, {"chk-"})
        /\ run = 2 => Count(Cur, {"trl"}) = 0 /\ pc \in {"attempt", "done"}

C1_Witness ==
    /\ frag.tpl = "Until"
    /\ pc = "done"
    /\ run = 2
    /\ Count(log, {"chk-"}) = 2
    /\ Count(log, {"trl"}) = 2
    /\ Cur = <<Ev("chk+", 0)>>

\* C2: when a While loop stops after s successful attempts followed by a
\* failed one, the trailing expression and the check expression have each
\* been evaluated exactly s + 1 times; before every attempt the trailing
\* expression has run once more than the check expression.
C2_WhileDoWhileCounts ==
    (Running /\ frag.tpl = "While") =>
        /\ pc = "attempt" => Count(Cur, {"trl"}) = Count(Cur, Checks) + 1
        /\ pc = "done" =>
            /\ Count(Cur, {"chk-"}) = 1 /\ Cur[Len(Cur)].e = "chk-"
            /\ Count(Cur, {"trl"}) = Count(Cur, {"chk+"}) + 1
            /\ Count(Cur, Checks) = Count(Cur, {"chk+"}) + 1

C2_Witness ==
    /\ frag.tpl = "While"
    /\ pc = "done"
    /\ run = 2
    /\ Count(log, {"chk+"}) = 2
    /\ Count(Cur, {"chk+"}) = 0
    /\ Count(Cur, {"trl"}) = 1

\* The ids of the named (non-raw-pattern) fields, in field order.
NamedIds(fs) ==
    LET named == SelectSeq(fs, LAMBDA f : f.cap # "pat")
    IN  [i \in 1..Len(named) |-> named[i].id]

\* C3: a While with initializer fields evaluates each initializer exactly
\* once, in declared field order, before anything else of the loop, and
\* every attempt is immediately preceded by an evaluation of the trailing
\* expression. The seed tuple of every emitted While lists the
\* initializers of the named fields once each, in field order.
C3_WhileInitThenTrailingThenAttempt ==
    /\ (frag.tpl = "While" /\ frag.shape \in {"Variant", "Caption"}) =>
            EvalInits(<<>>, frag.names)
                = [i \in 1..Len(NamedIds(fields)) |-> Ev("ini", NamedIds(fields)[i])]
    /\ (pc \in {"body", "attempt", "done"} /\ frag.tpl = "While" /\ frag.names # <<>>) =>
        /\ Len(Cur) >= Len(frag.names)
        /\ \A i \in 1..Len(frag.names) : Cur[i] = Ev("ini", frag.names[i].cln)
        /\ \A i, j \in 1..Len(frag.names) :
            i < j => frag.names[i].cln < frag.names[j].cln
        /\ Count(Cur, {"ini"}) = Len(frag.names)
        /\ \A i \in 1..Len(Cur) :
            Cur[i].e \in Checks => i > 1 /\ Cur[i - 1].e = "trl"

C3_Witness ==
    /\ frag.tpl = "While"
    /\ frag.names # <<>>
    /\ pc = "done"
    /\ Count(Cur, {"ini"}) = 1
    /\ Count(Cur, {"chk+"}) = 2

\* C4 (as stated): when a Caption While stops after at least one
\* successful attempt, the tuple it yields is the tuple the last successful
\* attempt bound.
C4_YieldIsLastSuccess ==
    (frag.tpl = "While" /\ frag.shape = "Caption" /\ pc = "done"
        /\ Count(Cur, {"chk+"}) > 0) => result = monitor

\* C4 (amended): a Caption While yields the loop-local names as the
\* trailing expression of the final iteration left them: the last
\* successful state (the initializers when no attempt succeeded) except in
\* the names that iteration's trailing expression assigned, and only a
\* name declared `mut` can be assigned.
C4_YieldIsStateAfterFinalTrailing ==
    (frag.tpl = "While" /\ frag.shape = "Caption" /\ pc = "done") =>
        /\ result = loc
        /\ Len(result) = Len(frag.names)
        /\ \A i \in 1..Len(frag.names) :
            frag.names[i].bmo # <<"mut">> => result[i] = monitor[i]

C4_Witness ==
    /\ frag.tpl = "While"
    /\ frag.shape = "Caption"
    /\ pc = "done"
    /\ Count(Cur, {"chk+"}) > 0
    /\ result # monitor

\* The last evaluation of the check expression matched.
Succeeded == lastOut.shapeOk /\ lastOut.grdOk

\* C5 (as stated): a Fall whose attempt succeeds evaluates no fallback
\* expression and yields the binding tuple; one whose attempt fails
\* evaluates each fallback expression exactly once and yields their values.
C5_FallbackBecomesResult ==
    (frag.tpl = "Fall" /\ pc = "done") =>
        /\ Succeeded =>
            Count(log, {"fbk"}) = 0 /\ result = lastOut.vals
        /\ ~Succeeded =>
            /\ SelectSeq(log, LAMBDA e : e.e = "fbk")
                    = [i \in 1..tail.n |-> Ev("fbk", i)]
            /\ result = FallbackTuple(tail)

\* C5 (amended): as above, except that on the Path shape the fallback
\* expression is evaluated once for its effect and its value is dropped:
\* the result is value-less whatever the fallback expression is.
C5_FallbackBecomesResultButPath ==
    (frag.tpl = "Fall" /\ pc = "done") =>
        /\ Succeeded =>
            Count(log, {"fbk"}) = 0 /\ result = lastOut.vals
        /\ ~Succeeded =>
            /\ SelectSeq(log, LAMBDA e : e.e = "fbk")
                    = [i \in 1..tail.n |-> Ev("fbk", i)]
            /\ result = (IF shape = "Path" THEN <<>> ELSE FallbackTuple(tail))

C5_Witness ==
    /\ frag.tpl = "Fall"
    /\ shape = "Variant"
    /\ pc = "done"
    /\ ~Succeeded
    /\ Len(frag.names) = 1
    /\ result = <<0>>
    /\ Count(log, {"fbk"}) = 1

\* C6: a single-shot fragment (Fail, Fall, Return, Return (Break)) has
\* evaluated the check expression exactly once when it is over, whether the
\* attempt matched or not; a loop never evaluates it twice in a row, Until
\* evaluates it once per pass (one more than the trailing expression once
\* an attempt is made) and While once per completed iteration.
C6_CheckOncePerAttempt ==
    /\ (frag.tpl \in {"Fail", "Fall", "Return", "Break"} /\ Running) =>
            Count(log, Checks) = (IF pc = "attempt" THEN 0 ELSE 1)
    /\ (frag.tpl \in {"Until", "While"} /\ Running) =>
            \A i \in 1..Len(log) :
                (i > 1 /\ log[i].e \in Checks) => log[i - 1].e \notin Checks
    /\ (frag.tpl = "Until" /\ Running) =>
            Count(Cur, Checks)
                = Count(Cur, {"trl"}) + (IF pc = "attempt" THEN 0 ELSE 1)
    /\ (frag.tpl = "While" /\ Running) =>
            Count(Cur, Checks)
                = (IF pc = "attempt" THEN Count(Cur, {"trl"}) - 1
                   ELSE Count(Cur, {"trl"}))

C6_Witness ==
    /\ frag.tpl = "Break"
    /\ shape = "Rule"
    /\ pc = "exited"
    /\ Count(log, Checks) = 1

\* C7: a Fail whose check value has the shape and passes every guard
\* yields the binding tuple and the routine goes on; a shape mismatch and
\* a failed guard alike make the routine return the trailing expression
\* wrapped in Err.
C7_FailReturnsErrOnMismatchOrGuard ==
    (frag.tpl = "Fail" /\ pc \in {"done", "exited"}) =>
        /\ (lastOut.shapeOk /\ lastOut.grdOk) =>
            pc = "done" /\ exit = NoExit /\ result = lastOut.vals
        /\ (~lastOut.shapeOk \/ ~lastOut.grdOk) =>
            pc = "exited" /\ exit = Exit("return", "Err")

C7_Witness ==
    /\ frag.tpl = "Fail"
    /\ shape = "Variant"
    /\ pc = "exited"
    /\ lastOut.shapeOk
    /\ ~lastOut.grdOk
    /\ exit = Exit("return", "Err")

\* C8: a `#>` construct whose attempt fails breaks, and does not return,
\* when its trailing tokens begin with `break`, and otherwise returns the
\* trailing expression unwrapped; when the attempt succeeds there is no
\* exit and the binding tuple is the result.
C8_ReturnBreaksOrReturnsVerbatim ==
    (tail.op = "#>" /\ pc \in {"done", "exited"}) =>
        /\ Succeeded => pc = "done" /\ exit = NoExit /\ result = lastOut.vals
        /\ (~Succeeded /\ tail.brk) => pc = "exited" /\ exit = Exit("break", "none")
        /\ (~Succeeded /\ ~tail.brk) => pc = "exited" /\ exit = Exit("return", "none")

C8_Witness ==
    /\ tail.op = "#>"
    /\ ~tail.brk
    /\ shape = "Caption"
    /\ pc = "exited"
    /\ exit = Exit("return", "none")

\* C9: once a Variant or Caption field list is normalized there is one
\* descriptor per field, in field order (a named slot for a named field, a
\* pattern slot for a raw pattern), and one output name per named field,
\* in field order, none for a raw pattern; a binding tuple has as many
\* slots as there are named fields.
C9_OneNamePerNamedField ==
    (shape \in {"Variant", "Caption"} /\ pc # "format") =>
        /\ Len(dsc) = Len(fields)
        /\ \A i \in 1..Len(fields) :
            /\ dsc[i].alt = (fields[i].cap = "pat")
            /\ dsc[i].var = (IF fields[i].cap = "pat" THEN 0 ELSE fields[i].id)
        /\ [i \in 1..Len(nms) |-> nms[i].cln] = NamedIds(fields)
        /\ (pc = "done" /\ Succeeded /\ frag.tpl # "While") =>
                Len(result) = Len(NamedIds(fields))

C9_Witness ==
    /\ shape = "Caption"
    /\ pc = "done"
    /\ Succeeded
    /\ Len(fields) = 2
    /\ fields[1].cap = "pat"
    /\ fields[2].cap = "refmut"
    /\ Len(nms) < Len(dsc)

\* C10 (as stated): a Fall that binds at least one name and whose number
\* of fallback expressions differs from the arity of the binding tuple is
\* rejected by the Expander: no fragment is emitted.
C10_FallArityMismatchRejected ==
    (/\ tail.op = "<>"
     /\ shape \in {"Variant", "Caption"}
     /\ pc \notin {"format", "expand"}
     /\ Len(nms) > 0
     /\ tail.n # Len(nms)) =>
        pc = "rejected" /\ frag.tpl = "none"

\* C10 (amended): the Expander does not compare the number of fallback
\* expressions with the arity of the binding tuple: a Variant or Caption
\* Fall (no field carrying an initializer) is emitted with whatever
\* fallback expressions were written, a Path or Rule Fall is emitted
\* exactly when one fallback expression was written; a mismatch is left to
\* the host.
C10_FallEmittedWhateverArity ==
    (tail.op = "<>" /\ pc \notin {"format", "expand"}) =>
        /\ (shape \in {"Variant", "Caption"} /\ \A i \in 1..Len(fields) : ~fields[i].ini) =>
                frag.tpl = "Fall" /\ frag.tail.n = tail.n /\ pc # "rejected"
        /\ shape = "Path" => (frag.tpl = "Fall" <=> tail.n = 1)
        /\ shape = "Rule" => (frag.tpl = "Fall" <=> (tail.n = 1 /\ nrle > 0))

C10_Witness ==
    /\ tail.op = "<>"
    /\ shape = "Variant"
    /\ Len(nms) = 1
    /\ tail.n = 2
    /\ frag.tpl = "Fall"
    /\ frag.tail.n = 2
    /\ pc = "hosterr"

\* C11: a construct handed to `tri` gets its shape from the delimiter that
\* follows the tag and from nothing else: a path followed by a field list
\* in `[...]` is a Caption, in `(...)` a Variant, a path followed directly
\* by the trailing clause is a Path, a bracketed list with no path before
\* it is a Rule; whatever is expanded has one of the four shapes; a path
\* followed by an empty list, and a trailing clause that begins with none
\* of the five operators, are never expanded.
C11_ShapeFromDelimiterAlone ==
    via = "tri" =>
        /\ (tag > 0 /\ delim = "[" /\ fields # <<>>) => shape = "Caption"
        /\ (tag > 0 /\ delim = "(" /\ fields # <<>>) => shape = "Variant"
        /\ (tag > 0 /\ delim = "none") => shape = "Path"
        /\ (tag = 0 /\ delim = "[") => shape = "Rule"
        /\ frag.tpl # "none" => shape \in Shapes
        /\ (tag > 0 /\ delim # "none" /\ fields = <<>>) => frag.tpl = "none"
        /\ tail.op \notin OpTokens => frag.tpl = "none"

\* C12: a Variant construct with one named field that carries an
\* initializer, followed by `>>`, is accepted by the Normalizer and the
\* Expander as the Caption construct is: the While template is emitted, the
\* host runs it, and when the loop stops it yields the final state tuple,
\* one value per name.
C12_VariantWhileWithInitializer ==
    (/\ shape = "Variant"
     /\ tail.op = ">>"
     /\ Len(fields) = 1
     /\ fields[1].cap \in {"mut", "ident"}
     /\ fields[1].ini
     /\ pc \notin {"classify", "format", "expand"}) =>
        /\ frag.tpl = "While"
        /\ Running
        /\ pc = "done" => (Len(result) = 1 /\ result = loc)

\* C13 (as stated): a raw-pattern field ends the normalization: it
\* contributes no output name and takes the rest of the field list with
\* it, so that its descriptor is the last one and no field after it has an
\* output name.
C13_RawPatternAbsorbsRest ==
    (shape \in {"Variant", "Caption"} /\ pc \notin {"classify", "format"}) =>
        \A i \in 1..Len(fields) :
            fields[i].cap = "pat" =>
                /\ Len(dsc) = i
                /\ \A k \in 1..Len(nms) : nms[k].cln < i

\* C13 (amended): a raw-pattern field contributes one pattern-slot
\* descriptor and no output name, and takes only itself off the field
\* list: at every step of the normalization the descriptors written and
\* the fields left add up to the field list, and every field after a raw
\* pattern gets its own descriptor, and its own output name when it is a
\* named field.
C13_RawPatternTakesOneField ==
    (shape \in {"Variant", "Caption"}) =>
        /\ Len(dsc) + Len(uci) = Len(fields)
        /\ \A i \in 1..Len(dsc) :
            fields[i].cap = "pat" =>
                /\ dsc[i] = Descriptor(FALSE, FALSE, 0, FALSE, FALSE, TRUE)
                /\ \A k \in 1..Len(nms) : nms[k].cln # i
                /\ \A j \in (i + 1)..Len(dsc) :
                    /\ dsc[j].alt = (fields[j].cap = "pat")
                    /\ fields[j].cap # "pat" =>
                        /\ dsc[j].var = j
                        /\ \E k \in 1..Len(nms) :
                            nms[k].cln = j /\ nms[k].bmo = BmoOf(fields[j].cap)

C13_Witness ==
    /\ shape = "Variant"
    /\ pc = "expand"
    /\ Len(fields) = 2
    /\ fields[1].cap = "pat"
    /\ fields[2].cap = "mut"
    /\ Len(dsc) = 2
    /\ dsc[2].var = 2
    /\ Len(nms) = 1
    /\ nms[1].cln = 2

\* C14: once a Caption fragment has bound its names, a name whose field was
\* written `mut name` is a mutable local of the enclosing scope, whichever
\* of Fail, Fall, Return, Until and While the construct uses.
C14_MutReachesScopeUnderEveryOperator ==
    (frag.shape = "Caption" /\ pc = "done" /\ Succeeded) =>
        \A i \in 1..Len(frag.names) :
            fields[frag.names[i].cln].cap = "mut" =>
                ScopeQualifiers(frag, i) = <<"mut">>

====
